---- MODULE Spec2Model ----
(***************************************************************************)
(* The embedded terminal of wrappac: the screen buffer and the ANSI parser *)
(* of src/qt_terminal.py, and the process host of src/managed_terminal.py  *)
(* (ManagedTerminalWidget on top of TerminalWidget).                       *)
(*                                                                         *)
(* Python lists are 0-based, TLA+ sequences 1-based: primary[r][c] of the  *)
(* code is s.primary[r + 1][c + 1] here.  Grid sizes, the scrollback       *)
(* capacity and the number of commands run are scaled down to the bounds   *)
(* below.                                                                  *)
(***************************************************************************)
EXTENDS Integers, Sequences, FiniteSets, TLC

\* ------------------------------------------------------------------ bounds
MaxRows == 2
MaxCols == 2
Scrollback == 2
MaxSteps == 4
MaxRuns == 2

\* ------------------------------------------------------- program constants
\* Python's None for an object reference or a pid / descriptor.
None == 0
SIGHUP == 1
SIGINT == 2
SIGKILL == 9
SIGTERM == 15

Max(a, b) == IF a >= b THEN a ELSE b
Min(a, b) == IF a <= b THEN a ELSE b

\* ------------------------------------------------------------------- Cell
NoColor == <<>>

Cell(ch, fg, bg, bold, italic, underline, inverse) ==
    [ch |-> ch, fg |-> fg, bg |-> bg, bold |-> bold, italic |-> italic,
     underline |-> underline, inverse |-> inverse]

\* Cell() with the dataclass defaults.
DefaultCell == Cell(" ", NoColor, NoColor, FALSE, FALSE, FALSE, FALSE)

clamp(v, lo, hi) == Max(lo, Min(hi, v))

\* [Cell() for _ in range(n)]
BlankRow(n) == [i \in 1..n |-> DefaultCell]

\* ----------------------------------------------------------- ScreenBuffer
\* ScreenBuffer.__init__ followed by reset().
ScreenBuffer(rows, cols, scrollback) ==
    [rows |-> rows, cols |-> cols, scrollback_limit |-> scrollback,
     cursor_row |-> 0, cursor_col |-> 0, saved_cursor |-> <<0, 0>>,
     primary |-> [r \in 1..rows |-> BlankRow(cols)],
     scrollback |-> <<>>]

reset(s) == ScreenBuffer(s.rows, s.cols, s.scrollback_limit)

\* push_scrollback that keeps every row, whatever the limit.
push_scrollback_keep_all(sb, row, limit) == Append(sb, row)

\* push_scrollback that drops the newest row when over the limit.
push_scrollback_drop_newest(sb, row, limit) ==
    IF limit > 0
    THEN LET a == Append(sb, row) IN IF Len(a) > limit THEN SubSeq(a, 1, limit) ELSE a
    ELSE sb

\* scrollback.append(row), then popleft() when over the limit; nothing is
\* kept when the limit is 0.
push_scrollback(sb, row, limit) ==
    IF limit > 0
    THEN LET a == Append(sb, row) IN IF Len(a) > limit THEN Tail(a) ELSE a
    ELSE sb

RECURSIVE resize_shrink_bottom(_, _)
\* The shrinking loop taking the rows off the bottom of the grid.
resize_shrink_bottom(s, n) ==
    IF n = 0 THEN s
    ELSE IF Len(s.primary) = 0 THEN resize_shrink_bottom(s, n - 1)
    ELSE resize_shrink_bottom(
           [s EXCEPT !.primary = SubSeq(s.primary, 1, Len(s.primary) - 1),
                     !.scrollback = push_scrollback(s.scrollback,
                                                    s.primary[Len(s.primary)],
                                                    s.scrollback_limit)],
           n - 1)

RECURSIVE resize_shrink(_, _)
\* The loop of resize for rows < self.rows: n times pop the top row into
\* the scrollback.
resize_shrink(s, n) ==
    IF n = 0 THEN s
    ELSE IF Len(s.primary) = 0 THEN resize_shrink(s, n - 1)
    ELSE resize_shrink(
           [s EXCEPT !.primary = Tail(s.primary),
                     !.scrollback = push_scrollback(s.scrollback, Head(s.primary),
                                                    s.scrollback_limit)],
           n - 1)

\* resize that leaves self.rows as it was.
resize_stale_rows(s, rows, cols) ==
    LET s1 == IF rows < s.rows THEN resize_shrink(s, s.rows - rows)
              ELSE IF rows > s.rows
              THEN [s EXCEPT !.primary =
                        s.primary \o [i \in 1..(rows - s.rows) |-> BlankRow(s.cols)]]
              ELSE s
        prim == IF cols # s.cols
                THEN [r \in 1..Len(s1.primary) |->
                        IF cols > s.cols
                        THEN s1.primary[r] \o BlankRow(cols - s.cols)
                        ELSE SubSeq(s1.primary[r], 1, cols)]
                ELSE s1.primary
    IN [s1 EXCEPT !.primary = prim, !.cols = cols,
                  !.cursor_row = clamp(s.cursor_row, 0, rows - 1),
                  !.cursor_col = clamp(s.cursor_col, 0, cols - 1)]

resize(s, rows, cols) ==
    LET s1 == IF rows < s.rows THEN resize_shrink(s, s.rows - rows)
              ELSE IF rows > s.rows
              THEN [s EXCEPT !.primary =
                        s.primary \o [i \in 1..(rows - s.rows) |-> BlankRow(s.cols)]]
              ELSE s
        prim == IF cols # s.cols
                THEN [r \in 1..Len(s1.primary) |->
                        IF cols > s.cols
                        THEN s1.primary[r] \o BlankRow(cols - s.cols)
                        ELSE SubSeq(s1.primary[r], 1, cols)]
                ELSE s1.primary
    IN [s1 EXCEPT !.primary = prim, !.rows = rows, !.cols = cols,
                  !.cursor_row = clamp(s.cursor_row, 0, rows - 1),
                  !.cursor_col = clamp(s.cursor_col, 0, cols - 1)]

\* scroll_up whose new bottom row is one cell too long.
RECURSIVE scroll_up_long_row(_, _)
scroll_up_long_row(s, n) ==
    IF n <= 0 THEN s
    ELSE scroll_up_long_row(
           [s EXCEPT !.scrollback = push_scrollback(s.scrollback, s.primary[1],
                                                    s.scrollback_limit),
                     !.primary = Append(Tail(s.primary), BlankRow(s.cols + 1))],
           n - 1)

RECURSIVE scroll_up(_, _)
scroll_up(s, n) ==
    IF n <= 0 THEN s
    ELSE scroll_up(
           [s EXCEPT !.scrollback = push_scrollback(s.scrollback, s.primary[1],
                                                    s.scrollback_limit),
                     !.primary = Append(Tail(s.primary), BlankRow(s.cols))],
           n - 1)

newline(s) ==
    LET s1 == [s EXCEPT !.cursor_col = 0, !.cursor_row = s.cursor_row + 1]
    IN IF s1.cursor_row >= s1.rows
       THEN [scroll_up(s1, 1) EXCEPT !.cursor_row = s1.rows - 1]
       ELSE s1

\* _write_char that wraps as soon as the last column is written.
write_char_eager(s, cell) ==
    IF /\ 0 <= s.cursor_row /\ s.cursor_row < s.rows
       /\ 0 <= s.cursor_col /\ s.cursor_col < s.cols
    THEN LET s1 == [s EXCEPT !.primary[s.cursor_row + 1][s.cursor_col + 1] = cell,
                             !.cursor_col = s.cursor_col + 1]
         IN IF s1.cursor_col >= s1.cols THEN newline(s1) ELSE s1
    ELSE s

write_char(s, cell) ==
    LET s1 == IF s.cursor_col >= s.cols THEN newline(s) ELSE s
    IN IF /\ 0 <= s1.cursor_row /\ s1.cursor_row < s1.rows
          /\ 0 <= s1.cursor_col /\ s1.cursor_col < s1.cols
       THEN [s1 EXCEPT !.primary[s1.cursor_row + 1][s1.cursor_col + 1] = cell,
                       !.cursor_col = s1.cursor_col + 1]
       ELSE s1

RECURSIVE write_chars(_, _, _)
\* for _ in range(n): self._write_char(cell)
write_chars(s, cell, n) ==
    IF n = 0 THEN s ELSE write_chars(write_char(s, cell), cell, n - 1)

\* The control characters put_char knows.
LF == "\n"
CR == "\r"
BS == "\\b"
TAB == "\t"
ESC == "\\x1b"

put_char(s, cell) ==
    IF cell.ch = LF THEN newline(s)
    ELSE IF cell.ch = CR THEN [s EXCEPT !.cursor_col = 0]
    ELSE IF cell.ch = BS THEN [s EXCEPT !.cursor_col = Max(0, s.cursor_col - 1)]
    ELSE IF cell.ch = TAB
    THEN write_chars(s, [cell EXCEPT !.ch = " "], 8 - (s.cursor_col % 8))
    ELSE write_char(s, cell)

\* row[c] = Cell() for every c of lo..hi that the row has (0-based, hi
\* inclusive); the code's loop stops with IndexError at the first c past
\* the row.
blank_cells(row, lo, hi) ==
    [c \in 1..Len(row) |-> IF lo <= c - 1 /\ c - 1 <= hi THEN DefaultCell ELSE row[c]]

\* erase_in_display raises IndexError: primary[cursor_row] with the cursor
\* row past the grid (modes 0 and 1), or row[c] with c = cols (mode 1).
erase_in_display_raises(s, mode) ==
    \/ mode = 0 /\ s.cursor_row >= Len(s.primary)
    \/ mode = 1 /\ (s.cursor_row >= Len(s.primary)
                    \/ s.cursor_col + 1 > Len(s.primary[s.cursor_row + 1]))

\* The buffer erase_in_display leaves, also when it raises part-way.
erase_in_display(s, mode) ==
    IF mode = 2
    THEN [s EXCEPT !.primary = [r \in 1..s.rows |-> BlankRow(s.cols)],
                   !.cursor_row = clamp(s.cursor_row, 0, s.rows - 1),
                   !.cursor_col = clamp(s.cursor_col, 0, s.cols - 1)]
    ELSE IF mode = 0
    THEN IF s.cursor_row >= Len(s.primary) THEN s
         ELSE [s EXCEPT !.primary =
                 [r \in 1..Len(s.primary) |->
                    IF r - 1 = s.cursor_row
                    THEN blank_cells(s.primary[r], s.cursor_col, s.cols - 1)
                    ELSE IF r - 1 > s.cursor_row /\ r - 1 < s.rows
                    THEN BlankRow(s.cols)
                    ELSE s.primary[r]]]
    ELSE IF mode = 1
    THEN [s EXCEPT !.primary =
            [r \in 1..Len(s.primary) |->
               IF r - 1 < s.cursor_row THEN BlankRow(s.cols)
               ELSE IF r - 1 = s.cursor_row
               THEN blank_cells(s.primary[r], 0, s.cursor_col)
               ELSE s.primary[r]]]
    ELSE s

\* erase_in_line raises IndexError: primary[cursor_row] with the cursor row
\* past the grid (every mode), or row[c] with c = cols (mode 1).
erase_in_line_raises(s, mode) ==
    \/ s.cursor_row >= Len(s.primary)
    \/ mode = 1 /\ s.cursor_col + 1 > Len(s.primary[s.cursor_row + 1])

\* The buffer erase_in_line leaves, also when it raises part-way.
erase_in_line(s, mode) ==
    IF s.cursor_row >= Len(s.primary) THEN s
    ELSE LET r == s.cursor_row + 1
             row == s.primary[r]
         IN IF mode = 2 THEN [s EXCEPT !.primary[r] = blank_cells(row, 0, s.cols - 1)]
            ELSE IF mode = 0
            THEN [s EXCEPT !.primary[r] = blank_cells(row, s.cursor_col, s.cols - 1)]
            ELSE IF mode = 1
            THEN [s EXCEPT !.primary[r] = blank_cells(row, 0, s.cursor_col)]
            ELSE s

move_cursor(s, r, c) ==
    [s EXCEPT !.cursor_row = clamp(r, 0, s.rows - 1),
              !.cursor_col = clamp(c, 0, s.cols - 1)]

save_cursor(s) == [s EXCEPT !.saved_cursor = <<s.cursor_row, s.cursor_col>>]

\* restore_cursor that restores the row and leaves the column.
restore_cursor_row_only(s) == [s EXCEPT !.cursor_row = s.saved_cursor[1]]

restore_cursor(s) ==
    [s EXCEPT !.cursor_row = s.saved_cursor[1], !.cursor_col = s.saved_cursor[2]]

\* ------------------------------------------------------------- AnsiParser
\* The palette of _xterm_256_to_qcolor for idx < 16, as (r, g, b).
BasePalette ==
    << <<0, 0, 0>>, <<128, 0, 0>>, <<0, 128, 0>>, <<128, 128, 0>>,
       <<0, 0, 128>>, <<128, 0, 128>>, <<0, 128, 128>>, <<192, 192, 192>>,
       <<128, 128, 128>>, <<255, 0, 0>>, <<0, 255, 0>>, <<255, 255, 0>>,
       <<0, 0, 255>>, <<255, 0, 255>>, <<0, 255, 255>>, <<255, 255, 255>> >>

CubeSteps == <<0, 95, 135, 175, 215, 255>>

xterm_256_to_qcolor(idx) ==
    IF idx < 16 THEN BasePalette[idx + 1]
    ELSE IF 16 <= idx /\ idx <= 231
    THEN LET k == idx - 16
         IN <<CubeSteps[((k \div 36) % 6) + 1], CubeSteps[((k \div 6) % 6) + 1],
              CubeSteps[(k % 6) + 1]>>
    ELSE LET shade == clamp(8 + (idx - 232) * 10, 0, 255)
         IN <<shade, shade, shade>>

\* AnsiParser.__init__: the parser's buffer references and SGR state.
AnsiParser(screen) ==
    [screen |-> screen, alt_screen |-> None, fg |-> NoColor, bg |-> NoColor,
     bold |-> FALSE, italic |-> FALSE, underline |-> FALSE, inverse |-> FALSE]

RECURSIVE sgr_loop(_, _, _)
\* The while loop of _apply_sgr from index i (0-based).
sgr_loop(p, params, i) ==
    IF i >= Len(params) THEN p
    ELSE
      LET a == params[i + 1]
          ext == a \in {38, 48}
          mode == IF i + 1 < Len(params) THEN params[i + 2] ELSE 0 - 1
          is256 == ext /\ mode = 5 /\ i + 2 < Len(params)
          isRgb == ext /\ ~is256 /\ mode = 2 /\ i + 4 < Len(params)
          color == IF is256 THEN xterm_256_to_qcolor(params[i + 3])
                   ELSE <<clamp(params[i + 3], 0, 255), clamp(params[i + 4], 0, 255),
                          clamp(params[i + 5], 0, 255)>>
          q == IF a = 0
               THEN [p EXCEPT !.fg = NoColor, !.bg = NoColor, !.bold = FALSE,
                              !.italic = FALSE, !.underline = FALSE, !.inverse = FALSE]
               ELSE IF a = 1 THEN [p EXCEPT !.bold = TRUE]
               ELSE IF a = 3 THEN [p EXCEPT !.italic = TRUE]
               ELSE IF a = 4 THEN [p EXCEPT !.underline = TRUE]
               ELSE IF a = 7 THEN [p EXCEPT !.inverse = TRUE]
               ELSE IF a = 22 THEN [p EXCEPT !.bold = FALSE]
               ELSE IF a = 23 THEN [p EXCEPT !.italic = FALSE]
               ELSE IF a = 24 THEN [p EXCEPT !.underline = FALSE]
               ELSE IF a = 27 THEN [p EXCEPT !.inverse = FALSE]
               ELSE IF 30 <= a /\ a <= 37 THEN [p EXCEPT !.fg = xterm_256_to_qcolor(a - 30)]
               ELSE IF a = 39 THEN [p EXCEPT !.fg = NoColor]
               ELSE IF 40 <= a /\ a <= 47 THEN [p EXCEPT !.bg = xterm_256_to_qcolor(a - 40)]
               ELSE IF a = 49 THEN [p EXCEPT !.bg = NoColor]
               ELSE IF 90 <= a /\ a <= 97
               THEN [p EXCEPT !.fg = xterm_256_to_qcolor(a - 90 + 8)]
               ELSE IF 100 <= a /\ a <= 107
               THEN [p EXCEPT !.bg = xterm_256_to_qcolor(a - 100 + 8)]
               ELSE IF is256 \/ isRgb
               THEN IF a = 38 THEN [p EXCEPT !.fg = color] ELSE [p EXCEPT !.bg = color]
               ELSE p
          skip == IF is256 THEN 2 ELSE IF isRgb THEN 4 ELSE 0
      IN sgr_loop(q, params, i + skip + 1)

\* _apply_sgr passing over the parameter 0.
NotReset(a) == a # 0
apply_sgr_no_reset(p, params) == sgr_loop(p, SelectSeq(params, NotReset), 0)

apply_sgr(p, params) == sgr_loop(p, IF Len(params) = 0 THEN <<0>> ELSE params, 0)

\* Cell(ch, *self._current_cell_style())
styled_cell(p, ch) == Cell(ch, p.fg, p.bg, p.bold, p.italic, p.underline, p.inverse)

\* A terminal is the heap of ScreenBuffer objects (bufs), the parser that
\* refers to them (p), and whether the call under way has raised (exc).
NoExc == "none"
IndexError == "IndexError"

\* _emit_plain writing to the buffer that is set aside (alt_screen) when
\* there is one.
emit_char_inactive(T, ch) ==
    LET b == IF T.p.alt_screen # None THEN T.p.alt_screen ELSE T.p.screen
    IN [T EXCEPT !.bufs[b] = put_char(T.bufs[b], styled_cell(T.p, ch))]

\* self.screen.put_char(Cell(ch, fg, bg, bold, italic, underline, inverse))
emit_char(T, ch) ==
    [T EXCEPT !.bufs[T.p.screen] = put_char(T.bufs[T.p.screen], styled_cell(T.p, ch))]

RECURSIVE emit_plain(_, _)
\* _emit_plain(s): every character goes to put_char of the parser's screen.
\* (T1 ranges over a singleton, which binds it to the terminal after the
\* first character.)
emit_plain(T, s) ==
    IF Len(s) = 0 THEN T
    ELSE CHOOSE R \in {emit_plain(T1, Tail(s)) : T1 \in {emit_char(T, Head(s))}} : TRUE

Digits == <<"0", "1", "2", "3", "4", "5", "6", "7", "8", "9">>

DigitVal(d) == CHOOSE v \in 0..9 : Digits[v + 1] = d

RECURSIVE to_int(_)
\* int(p) of a string of decimal digits.
to_int(ds) ==
    IF Len(ds) = 0 THEN 0
    ELSE 10 * to_int(SubSeq(ds, 1, Len(ds) - 1)) + DigitVal(ds[Len(ds)])

RECURSIVE split(_)
\* str.split(';'): the pieces between the separators, empty pieces kept.
split(s) ==
    IF \A i \in 1..Len(s) : s[i] # ";" THEN <<s>>
    ELSE LET i == CHOOSE j \in 1..Len(s) :
                     s[j] = ";" /\ \A k \in 1..(j - 1) : s[k] # ";"
         IN <<SubSeq(s, 1, i - 1)>> \o split(SubSeq(s, i + 1, Len(s)))

\* [int(p) if p else 0 for p in params_raw.split(';')]
parse_params(raw) ==
    LET pieces == split(raw)
    IN [i \in 1..Len(pieces) |-> IF Len(pieces[i]) = 0 THEN 0 ELSE to_int(pieces[i])]

\* The buffer TerminalWidget.screen refers to, for the widget's lifetime.
WidgetScreen == 1
BufIds == 1..3

\* A slot of the heap that holds no object.
NoBuffer == ScreenBuffer(0, 0, 0)

\* The slot a newly constructed ScreenBuffer takes.
new_id(T) == CHOOSE i \in BufIds :
                /\ i \notin {WidgetScreen, T.p.screen, T.p.alt_screen}
                /\ \A j \in BufIds : j < i => j \in {WidgetScreen, T.p.screen, T.p.alt_screen}

\* Objects nothing refers to any more are gone.
collect(T) ==
    [T EXCEPT !.bufs = [i \in BufIds |->
        IF i \in {WidgetScreen, T.p.screen, T.p.alt_screen} THEN T.bufs[i] ELSE NoBuffer]]

\* One parameter of a private h / l: the alternate-screen toggle.
private_mode(T, a, enable) ==
    IF a \notin {47, 1049} THEN T
    ELSE IF enable
    THEN LET T1 == IF T.p.alt_screen = None
                   THEN LET n == new_id(T)
                            cur == T.bufs[T.p.screen]
                        IN [T EXCEPT !.p.alt_screen = n,
                                     !.bufs[n] =
                                        [ScreenBuffer(cur.rows, cur.cols, 0) EXCEPT
                                            !.cursor_row = cur.cursor_row,
                                            !.cursor_col = cur.cursor_col]]
                   ELSE T
         IN [T1 EXCEPT !.p.screen = T1.p.alt_screen, !.p.alt_screen = T1.p.screen]
    ELSE IF T.p.alt_screen # None
    THEN [T EXCEPT !.p.screen = T.p.alt_screen, !.p.alt_screen = T.p.screen]
    ELSE T

RECURSIVE private_modes(_, _, _)
\* for p in params: ...
private_modes(T, params, enable) ==
    IF Len(params) = 0 THEN T
    ELSE private_modes(private_mode(T, Head(params), enable), Tail(params), enable)

handle_csi(T, params_raw, cmd) ==
    LET private == Len(params_raw) > 0 /\ params_raw[1] = "?"
        params == parse_params(IF private THEN Tail(params_raw) ELSE params_raw)
        s == T.bufs[T.p.screen]
        n1 == IF Len(params) > 0 THEN params[1] ELSE 1
        mode == IF Len(params) > 0 THEN params[1] ELSE 0
        to(s2) == [T EXCEPT !.bufs[T.p.screen] = s2]
    IN IF cmd = "m" THEN [T EXCEPT !.p = apply_sgr(T.p, params)]
       ELSE IF cmd \in {"H", "f"}
       THEN LET row == IF Len(params) >= 1 /\ params[1] # 0 THEN params[1] - 1 ELSE 0
                col == IF Len(params) >= 2 /\ params[2] # 0 THEN params[2] - 1 ELSE 0
            IN to(move_cursor(s, row, col))
       ELSE IF cmd = "A" THEN to(move_cursor(s, s.cursor_row - n1, s.cursor_col))
       ELSE IF cmd = "B" THEN to(move_cursor(s, s.cursor_row + n1, s.cursor_col))
       ELSE IF cmd = "C" THEN to(move_cursor(s, s.cursor_row, s.cursor_col + n1))
       ELSE IF cmd = "D" THEN to(move_cursor(s, s.cursor_row, s.cursor_col - n1))
       ELSE IF cmd = "E" THEN to(move_cursor(s, s.cursor_row + n1, 0))
       ELSE IF cmd = "F" THEN to(move_cursor(s, s.cursor_row - n1, 0))
       ELSE IF cmd = "G"
       THEN to(move_cursor(s, s.cursor_row,
                           IF Len(params) > 0 THEN params[1] - 1 ELSE 0))
       ELSE IF cmd = "J"
       THEN [to(erase_in_display(s, mode)) EXCEPT
                !.exc = IF erase_in_display_raises(s, mode) THEN IndexError ELSE T.exc]
       ELSE IF cmd = "K"
       THEN [to(erase_in_line(s, mode)) EXCEPT
                !.exc = IF erase_in_line_raises(s, mode) THEN IndexError ELSE T.exc]
       ELSE IF cmd = "S" THEN to(scroll_up(s, n1))
       ELSE IF cmd = "s" THEN to(save_cursor(s))
       ELSE IF cmd = "u" THEN to(restore_cursor(s))
       ELSE IF private /\ cmd \in {"h", "l"}
       THEN collect(private_modes(T, params, cmd = "h"))
       ELSE T

\* ------------------------------------------------------------------- feed
BEL == "\\x07"

\* [A-Za-z]
Letters ==
    {"A", "B", "C", "D", "E", "F", "G", "H", "I", "J", "K", "L", "M",
     "N", "O", "P", "Q", "R", "S", "T", "U", "V", "W", "X", "Y", "Z",
     "a", "b", "c", "d", "e", "f", "g", "h", "i", "j", "k", "l", "m",
     "n", "o", "p", "q", "r", "s", "t", "u", "v", "w", "x", "y", "z"}

\* [0-9;]
ParamChars == {"0", "1", "2", "3", "4", "5", "6", "7", "8", "9", ";"}

RECURSIVE strip_osc_title(_)
\* OSC_TITLE_RE.sub('', txt): ESC ] 0 ; up to the first BEL, no line feed
\* in between, is removed.
strip_osc_title(txt) ==
    IF Len(txt) = 0 THEN <<>>
    ELSE LET opens == Len(txt) >= 5 /\ SubSeq(txt, 1, 4) = <<ESC, "]", "0", ";">>
             bels == {b \in 5..Len(txt) :
                        txt[b] = BEL /\ \A k \in 5..(b - 1) : txt[k] \notin {BEL, LF}}
         IN IF opens /\ bels # {}
            THEN strip_osc_title(SubSeq(txt, (CHOOSE b \in bels : TRUE) + 1, Len(txt)))
            ELSE <<txt[1]>> \o strip_osc_title(Tail(txt))

RECURSIVE strip_charset(_)
\* re.sub(r'\x1b[\(\)][0AB]', '', txt)
strip_charset(txt) ==
    IF Len(txt) = 0 THEN <<>>
    ELSE IF Len(txt) >= 3 /\ txt[1] = ESC /\ txt[2] \in {"(", ")"} /\ txt[3] \in {"0", "A", "B"}
    THEN strip_charset(SubSeq(txt, 4, Len(txt)))
    ELSE <<txt[1]>> \o strip_charset(Tail(txt))

RECURSIVE strip_decsc(_)
\* re.sub(r'\x1b[78]', '', txt)
strip_decsc(txt) ==
    IF Len(txt) = 0 THEN <<>>
    ELSE IF Len(txt) >= 2 /\ txt[1] = ESC /\ txt[2] \in {"7", "8"}
    THEN strip_decsc(SubSeq(txt, 3, Len(txt)))
    ELSE <<txt[1]>> \o strip_decsc(Tail(txt))

RECURSIVE params_end(_, _)
\* The first position from j on whose character is not of [0-9;].
params_end(txt, j) ==
    IF j <= Len(txt) /\ txt[j] \in ParamChars THEN params_end(txt, j + 1) ELSE j

\* CSI_RE matched at position i: the position of its final letter, 0 when it
\* does not match there.
csi_match(txt, i) ==
    IF i + 2 <= Len(txt) /\ txt[i] = ESC /\ txt[i + 1] = "["
    THEN LET j == params_end(txt, IF txt[i + 2] = "?" THEN i + 3 ELSE i + 2)
         IN IF j <= Len(txt) /\ txt[j] \in Letters THEN j ELSE 0
    ELSE 0

RECURSIVE feed_from(_, _, _)
\* The loop of feed over CSI_RE.finditer(txt) from position pos, and the
\* _emit_plain of the rest; an exception of _handle_csi ends the call.
feed_from(T, txt, pos) ==
    LET starts == {i \in pos..Len(txt) : csi_match(txt, i) # 0}
    IN IF starts = {} THEN emit_plain(T, SubSeq(txt, pos, Len(txt)))
       ELSE LET i == CHOOSE m \in starts : \A k \in starts : m <= k
                j == csi_match(txt, i)
                T1 == emit_plain(T, SubSeq(txt, pos, i - 1))
                T2 == handle_csi(T1, SubSeq(txt, i + 2, j - 1), txt[j])
            IN IF T2.exc # NoExc THEN T2 ELSE feed_from(T2, txt, j + 1)

\* AnsiParser.feed(data), data being ASCII.
feed(T, txt) == feed_from(T, strip_decsc(strip_charset(strip_osc_title(txt))), 1)

\* ---------------------------------------------------------------- state
VARIABLES
    bufs,               \* the ScreenBuffer objects: slot WidgetScreen is TerminalWidget.screen
    parser,             \* TerminalWidget.parser: an AnsiParser
    rows, cols,         \* TerminalWidget.rows, .cols
    exc,                \* the exception the last feed(), run() or copy let escape, or NoExc
    steps,              \* screen, mouse and clipboard events delivered so far
    child_pid,          \* TerminalWidget.child_pid
    master_fd,          \* TerminalWidget.master_fd
    notifier,           \* TerminalWidget.notifier: the descriptor it watches, or None
    timer_active,       \* ManagedTerminalWidget._monitor_timer is running
    process_exit_code,  \* ManagedTerminalWidget._process_exit_code, <<>> for None
    procs,              \* the operating system's view of the children forked so far
    pty,                \* bytes a child wrote that the master has not read yet
    open_fds,           \* master descriptors the host holds open
    runs,               \* calls of run() so far
    events,             \* the signals emitted so far: started / finished(code)
    read_eof,           \* descriptors on which _read_pty met EOF or OSError
    dead_write,         \* os.write was called while no process was live
    kill_after_term,    \* the pids sent SIGKILL by terminate() when its SIGTERM had ended them
    selection_active,   \* TerminalWidget.selection_active
    sel_start, sel_end, \* TerminalWidget.sel_start, .sel_end: <<row, col>>, or NoSel
    clipboard           \* the text of the application's clipboard

screenVars == <<bufs, parser, rows, cols, exc, steps>>
hostVars == <<child_pid, master_fd, notifier, timer_active, process_exit_code,
              procs, pty, open_fds, runs, events, read_eof, dead_write, kill_after_term>>
selVars == <<selection_active, sel_start, sel_end, clipboard>>
vars == <<bufs, parser, rows, cols, exc, steps, child_pid, master_fd, notifier,
          timer_active, process_exit_code, procs, pty, open_fds, runs, events,
          read_eof, dead_write, kill_after_term, selection_active, sel_start, sel_end,
          clipboard>>

Pids == 1..MaxRuns

\* sel_start and sel_end before the first press of the mouse: Python's None.
NoSel == <<>>

\* The terminal as the parser's operators take it.
Term == [bufs |-> bufs, p |-> parser, exc |-> NoExc]

\* The commands run() is given: argv, and what the program does.  A child
\* writes Output(argv) to its terminal (as the master reads it, LF arriving
\* as CR LF) and exits with ExitCode(argv).
Argvs == {<<"echo", "hi">>, <<"sleep", "100">>, <<"nosuchcmd", "-x">>, <<"daemon">>}

\* os.execvp fails in the child: no such executable.
ExecFails(argv) == argv[1] = "nosuchcmd"

\* The child's output; the child of a failed exec prints "exec failed: ..."
\* (here one character) to its stderr, the terminal.
Output(argv) ==
    IF argv[1] = "echo" THEN <<"h", "i", CR, LF>>
    ELSE IF ExecFails(argv) THEN <<"e", CR, LF>>
    ELSE <<>>

\* The status the program exits with when no signal ends it; os._exit(1)
\* after a failed exec.
ExitCode(argv) ==
    IF ExecFails(argv) THEN 1 ELSE 0

\* A program that closes its terminal and keeps running.
Detaches(argv) == argv[1] = "daemon"

NoProc == [state |-> "unborn", argv |-> <<>>, status |-> 0, out |-> <<>>, slave |-> FALSE]

Init ==
    /\ rows = MaxRows
    /\ cols = MaxCols
    /\ bufs = [i \in BufIds |->
                 IF i = WidgetScreen THEN ScreenBuffer(MaxRows, MaxCols, Scrollback)
                 ELSE NoBuffer]
    /\ parser = AnsiParser(WidgetScreen)
    /\ exc = NoExc
    /\ steps = 0
    /\ child_pid = None
    /\ master_fd = None
    /\ notifier = None
    /\ timer_active = FALSE
    /\ process_exit_code = <<>>
    /\ procs = [p \in Pids |-> NoProc]
    /\ pty = [p \in Pids |-> <<>>]
    /\ open_fds = {}
    /\ runs = 0
    /\ events = <<>>
    /\ read_eof = {}
    /\ dead_write = FALSE
    /\ kill_after_term = {}
    /\ selection_active = FALSE
    /\ sel_start = NoSel
    /\ sel_end = NoSel
    /\ clipboard = <<>>

\* ------------------------------------------------------- screen operations
PlainChars == {"h", "i"}
ControlChars == {LF, CR, BS, TAB}

\* The CSI sequences fed: parameter string and final byte, a letter (X is
\* one _handle_csi does not know).  CSI_RE matches the whole of each.
CsiParams == {<<>>, <<"0">>, <<"1">>, <<"2">>, <<"2", ";", "2">>}
CsiCmds == {"A", "B", "C", "D", "H", "J", "K", "S", "s", "u", "m", "X"}
PrivateParams == {<<"?", "1", "0", "4", "9">>, <<"?", "4", "7">>}
CsiInputs == (CsiParams \X CsiCmds) \cup (PrivateParams \X {"h", "l"})

\* feed() of one character of plain text.
FeedText(ch) ==
    /\ steps < MaxSteps
    /\ steps' = steps + 1
    /\ \E T \in {emit_plain(Term, <<ch>>)} :
          /\ bufs' = T.bufs
          /\ parser' = T.p
          /\ exc' = T.exc
    /\ UNCHANGED <<rows, cols>>
    /\ UNCHANGED hostVars
    /\ UNCHANGED selVars

\* feed() of one CSI sequence, ESC [ params cmd.
FeedCSI(params_raw, cmd) ==
    /\ steps < MaxSteps
    /\ steps' = steps + 1
    /\ \E T \in {handle_csi(Term, params_raw, cmd)} :
          /\ bufs' = T.bufs
          /\ parser' = T.p
          /\ exc' = T.exc
    /\ UNCHANGED <<rows, cols>>
    /\ UNCHANGED hostVars
    /\ UNCHANGED selVars

\* resizeEvent with a viewport of r x c characters.
ResizeEvent(r, c) ==
    /\ steps < MaxSteps
    /\ steps' = steps + 1
    /\ rows' = Max(1, r)
    /\ cols' = Max(1, c)
    /\ IF rows' # rows \/ cols' # cols
       THEN LET T == collect([bufs |-> [bufs EXCEPT ![WidgetScreen] =
                                           resize(bufs[WidgetScreen], rows', cols')],
                              p |-> [parser EXCEPT !.alt_screen = None],
                              exc |-> NoExc])
            IN /\ bufs' = T.bufs
               /\ parser' = T.p
       ELSE UNCHANGED <<bufs, parser>>
    /\ UNCHANGED exc
    /\ UNCHANGED hostVars
    /\ UNCHANGED selVars

\* reset_terminal: the widget's buffer is reset in place and gets a new parser.
ResetTerminal ==
    /\ steps < MaxSteps
    /\ steps' = steps + 1
    /\ LET T == collect([bufs |-> [bufs EXCEPT ![WidgetScreen] = reset(bufs[WidgetScreen])],
                         p |-> AnsiParser(WidgetScreen),
                         exc |-> NoExc])
       IN /\ bufs' = T.bufs
          /\ parser' = T.p
    /\ UNCHANGED exc
    /\ UNCHANGED <<rows, cols>>
    /\ UNCHANGED hostVars
    /\ UNCHANGED selVars

ScreenNext ==
    \/ \E ch \in PlainChars \cup ControlChars : FeedText(ch)
    \/ \E csi \in CsiInputs : FeedCSI(csi[1], csi[2])
    \/ \E r \in 0..MaxRows, c \in 0..MaxCols : ResizeEvent(r, c)
    \/ ResetTerminal

ScreenSpec == Init /\ [][ScreenNext]_vars

\* ------------------------------------------------------ styles of output
\* The parameter strings of the SGR sequences fed: reset (none, 0), bold,
\* italic, underline, inverse, a base foreground and background colour, a
\* foreground of the 256-colour palette and a background in RGB.
SgrParams ==
    {<<>>, <<"0">>, <<"1">>, <<"3">>, <<"4">>, <<"7">>, <<"3", "1">>, <<"4", "4">>,
     <<"3", "8", ";", "5", ";", "1", "9", "6">>,
     <<"4", "8", ";", "2", ";", "1", ";", "2", ";", "3">>}

SgrNext ==
    \/ \E ch \in PlainChars : FeedText(ch)
    \/ \E params_raw \in SgrParams : FeedCSI(params_raw, "m")

SgrSpec == Init /\ [][SgrNext]_vars

\* ------------------------------------------------------- streams of output
\* Output streams a child writes: a clear-screen CSI, a reverse index
\* (ESC M), the code of the Page Up key echoed back (ESC [ 5 ~), and text.
Streams ==
    {<<ESC, "[", "2", "J">>, <<ESC, "M">>, <<ESC, "[", "5", "~">>, <<"h", "i">>}

Unrecognised == {<<ESC, "M">>, <<ESC, "[", "5", "~">>}

\* What one os.read of _read_pty can return of a stream: the whole of it,
\* or what a partial read leaves on either side of the split.
Chunks ==
    UNION {{SubSeq(S, 1, k) : k \in 1..Len(S)} \cup {SubSeq(S, k, Len(S)) : k \in 1..Len(S)} :
             S \in Streams}

\* parser.feed(data) of one chunk.
Feed(txt) ==
    /\ steps < MaxSteps
    /\ steps' = steps + 1
    /\ \E T \in {feed(Term, txt)} :
          /\ bufs' = T.bufs
          /\ parser' = T.p
          /\ exc' = T.exc
    /\ UNCHANGED <<rows, cols>>
    /\ UNCHANGED hostVars
    /\ UNCHANGED selVars

StreamNext == \E txt \in Chunks : Feed(txt)

StreamSpec == Init /\ [][StreamNext]_vars

\* ------------------------------------------------- selection and clipboard
\* _view_to_cell, the position given in units of a character cell: the
\* quotients pos.y() // char_h and pos.x() // char_w.
view_to_cell(y, x) == <<clamp(y, 0, rows - 1), clamp(x, 0, cols - 1)>>

\* _norm_sel: the endpoints in the order of Python's tuple comparison.
norm_sel(a, b) ==
    IF a[1] > b[1] \/ (a[1] = b[1] /\ a[2] > b[2]) THEN <<b, a>> ELSE <<a, b>>

\* row[start:end + 1] of Python, start and end counted from 0.
slice(row, start, end) ==
    [i \in 1..Max(0, Min(end + 1, Len(row)) - start) |-> row[start + i]]

\* ''.join(cell.ch for cell in cells)
text_of(cells) == [i \in 1..Len(cells) |-> cells[i].ch]

\* str.rstrip(): the cells hold no white space but the blank.
RECURSIVE rstrip(_)
rstrip(text) ==
    IF text = <<>> THEN <<>>
    ELSE IF text[Len(text)] = " " THEN rstrip(SubSeq(text, 1, Len(text) - 1))
    ELSE text

\* '\n'.join(lines)
RECURSIVE join(_)
join(lines) ==
    IF lines = <<>> THEN <<>>
    ELSE IF Len(lines) = 1 THEN lines[1]
    ELSE lines[1] \o <<LF>> \o join(Tail(lines))

\* The loop of copy_selection over the rows r0..r1 of `lines`, each cut to
\* the columns of the selection and stripped.
selected_text(lines, a) ==
    LET r0 == a[1][1]
        c0 == a[1][2]
        r1 == a[2][1]
        c1 == a[2][2]
    IN join([k \in 1..(r1 - r0 + 1) |->
               LET r == r0 + k - 1
               IN rstrip(text_of(slice(lines[r + 1],
                                       IF r = r0 THEN c0 ELSE 0,
                                       IF r = r1 THEN c1 ELSE cols - 1)))])

\* copy_selection raises IndexError: screen.primary[r] with r past the grid.
copy_selection_raises(a) == a[2][1] >= Len(bufs[WidgetScreen].primary)

\* paintEvent: the rows drawn with the scroll bar at `value`.
max_scroll ==
    Max(0, Len(bufs[WidgetScreen].scrollback) + Len(bufs[WidgetScreen].primary) - rows)

visible(value) ==
    LET full_lines == bufs[WidgetScreen].scrollback \o bufs[WidgetScreen].primary
        start == clamp(value, 0, max_scroll)
        shown == SubSeq(full_lines, start + 1, Min(start + rows, Len(full_lines)))
    IN shown \o [k \in 1..(rows - Len(shown)) |-> BlankRow(cols)]

\* The positions a mouse event reports, in cells: inside the viewport and
\* one cell outside of it on each side.
MouseYs == (0 - 1)..MaxRows
MouseXs == (0 - 1)..MaxCols

\* mousePressEvent with the left button.
MousePress(y, x) ==
    /\ steps < MaxSteps
    /\ steps' = steps + 1
    /\ selection_active' = TRUE
    /\ sel_start' = view_to_cell(y, x)
    /\ sel_end' = view_to_cell(y, x)
    /\ UNCHANGED clipboard
    /\ UNCHANGED <<bufs, parser, rows, cols, exc>>
    /\ UNCHANGED hostVars

\* mouseMoveEvent
MouseMove(y, x) ==
    /\ steps < MaxSteps
    /\ steps' = steps + 1
    /\ IF selection_active /\ sel_start # NoSel
       THEN sel_end' = view_to_cell(y, x)
       ELSE UNCHANGED sel_end
    /\ UNCHANGED <<selection_active, sel_start, clipboard>>
    /\ UNCHANGED <<bufs, parser, rows, cols, exc>>
    /\ UNCHANGED hostVars

\* mouseReleaseEvent with the left button.
MouseRelease ==
    /\ steps < MaxSteps
    /\ steps' = steps + 1
    /\ selection_active' = FALSE
    /\ UNCHANGED <<sel_start, sel_end, clipboard>>
    /\ UNCHANGED <<bufs, parser, rows, cols, exc>>
    /\ UNCHANGED hostVars

\* copy_selection
CopySelection ==
    /\ steps < MaxSteps
    /\ steps' = steps + 1
    /\ IF sel_start # NoSel /\ sel_end # NoSel
       THEN LET a == norm_sel(sel_start, sel_end)
            IN IF copy_selection_raises(a)
               THEN /\ exc' = IndexError
                    /\ UNCHANGED clipboard
               ELSE /\ exc' = NoExc
                    /\ clipboard' = selected_text(bufs[WidgetScreen].primary, a)
       ELSE /\ exc' = NoExc
            /\ UNCHANGED clipboard
    /\ UNCHANGED <<selection_active, sel_start, sel_end>>
    /\ UNCHANGED <<bufs, parser, rows, cols>>
    /\ UNCHANGED hostVars

\* Output arrives, the window is resized, and the user selects and copies.
SelectNext ==
    \/ \E ch \in PlainChars \cup {LF} : FeedText(ch)
    \/ \E r \in 0..MaxRows, c \in 0..MaxCols : ResizeEvent(r, c)
    \/ \E y \in MouseYs, x \in MouseXs : MousePress(y, x)
    \/ \E y \in MouseYs, x \in MouseXs : MouseMove(y, x)
    \/ MouseRelease
    \/ CopySelection

SelectSpec == Init /\ [][SelectNext]_vars

\* --------------------------------------------------------- the process host
\* The wait status of a child: the exit code in the high byte, or the number
\* of the signal that ended it in the low seven bits.
ExitedStatus(code) == code * 256
SignaledStatus(sig) == sig

WIFEXITED(status) == status % 128 = 0
WEXITSTATUS(status) == (status \div 256) % 256
WIFSIGNALED(status) == (status % 128) \notin {0, 127}
WTERMSIG(status) == status % 128

\* decode_status with the signal number left positive.
decode_status_unsigned(status) ==
    IF WIFEXITED(status) THEN WEXITSTATUS(status)
    ELSE IF WIFSIGNALED(status) THEN WTERMSIG(status)
    ELSE 0 - 1

\* The exit_code _check_process_status computes from a wait status.
decode_status(status) ==
    IF WIFEXITED(status) THEN WEXITSTATUS(status)
    ELSE IF WIFSIGNALED(status) THEN 0 - WTERMSIG(status)
    ELSE 0 - 1

\* os.kill(pid, sig): a running child dies of the signal (every program
\* here keeps the default dispositions); a zombie is left as it is.
os_kill(ps, pid, sig) ==
    IF ps[pid].state = "running"
    THEN [ps EXCEPT ![pid].state = "zombie", ![pid].status = SignaledStatus(sig),
                    ![pid].slave = FALSE]
    ELSE ps

\* The teardown at the head of start_process, on the operating system's
\* side: SIGHUP to a child still recorded, and the master descriptor closed
\* (what was not read from it is lost).
teardown_procs == IF child_pid # None THEN os_kill(procs, child_pid, SIGHUP) ELSE procs
teardown_pty == IF master_fd # None THEN [pty EXCEPT ![master_fd] = <<>>] ELSE pty
teardown_fds == IF master_fd # None THEN open_fds \ {master_fd} ELSE open_fds

\* run(argv) when pty.fork() succeeds: start_process, then the monitor timer
\* is started and started is emitted.  The new child is process runs + 1 and
\* the master of its terminal is descriptor runs + 1.
Run(argv) ==
    /\ runs < MaxRuns
    /\ Len(argv) > 0
    /\ runs' = runs + 1
    /\ LET pid == runs + 1
       IN /\ procs' = [teardown_procs EXCEPT ![pid] =
                          [state |-> "running", argv |-> argv, status |-> 0,
                           out |-> Output(argv), slave |-> TRUE]]
          /\ pty' = teardown_pty
          /\ open_fds' = teardown_fds \cup {pid}
          /\ child_pid' = pid
          /\ master_fd' = pid
          /\ notifier' = pid
    /\ process_exit_code' = <<>>
    /\ timer_active' = TRUE
    /\ events' = Append(events, [sig |-> "started", pid |-> runs + 1, code |-> 0])
    /\ exc' = NoExc
    /\ UNCHANGED selVars
    /\ UNCHANGED <<bufs, parser, rows, cols, steps, read_eof, dead_write, kill_after_term>>

\* run(argv) when pty.fork() raises OSError: the teardown is done, the
\* exception leaves start_process and run.
RunForkFails(argv) ==
    /\ runs < MaxRuns
    /\ Len(argv) > 0
    /\ runs' = runs + 1
    /\ procs' = teardown_procs
    /\ pty' = teardown_pty
    /\ open_fds' = teardown_fds
    /\ child_pid' = None
    /\ master_fd' = None
    /\ notifier' = None
    /\ exc' = "OSError"
    /\ UNCHANGED selVars
    /\ UNCHANGED <<bufs, parser, rows, cols, steps, timer_active, process_exit_code,
                   events, read_eof, dead_write, kill_after_term>>

\* run([]) returns at once.
RunEmpty ==
    /\ exc' = NoExc
    /\ UNCHANGED selVars
    /\ UNCHANGED <<bufs, parser, rows, cols, steps, child_pid, master_fd, notifier,
                   timer_active, process_exit_code, procs, pty, open_fds, runs, events,
                   read_eof, dead_write, kill_after_term>>

\* The child writes to its terminal all it has to write.
ChildWrite(p) ==
    /\ procs[p].state = "running"
    /\ procs[p].slave
    /\ procs[p].out # <<>>
    /\ procs' = [procs EXCEPT ![p].out = <<>>]
    /\ pty' = [pty EXCEPT ![p] = IF p \in open_fds THEN pty[p] \o procs[p].out ELSE <<>>]
    /\ UNCHANGED selVars
    /\ UNCHANGED <<bufs, parser, rows, cols, exc, steps, child_pid, master_fd, notifier,
                   timer_active, process_exit_code, open_fds, runs, events,
                   read_eof, dead_write, kill_after_term>>

\* The child closes its side of the terminal and keeps running.
ChildCloseSlave(p) ==
    /\ procs[p].state = "running"
    /\ procs[p].slave
    /\ Detaches(procs[p].argv)
    /\ procs' = [procs EXCEPT ![p].slave = FALSE]
    /\ UNCHANGED selVars
    /\ UNCHANGED <<bufs, parser, rows, cols, exc, steps, child_pid, master_fd, notifier,
                   timer_active, process_exit_code, pty, open_fds, runs, events,
                   read_eof, dead_write, kill_after_term>>

\* The child exits by itself, its output written.
ChildExit(p) ==
    /\ procs[p].state = "running"
    /\ procs[p].out = <<>>
    /\ procs' = [procs EXCEPT ![p].state = "zombie",
                              ![p].status = ExitedStatus(ExitCode(procs[p].argv)),
                              ![p].slave = FALSE]
    /\ UNCHANGED selVars
    /\ UNCHANGED <<bufs, parser, rows, cols, exc, steps, child_pid, master_fd, notifier,
                   timer_active, process_exit_code, pty, open_fds, runs, events,
                   read_eof, dead_write, kill_after_term>>

\* The monitor timer fires: _check_process_status.
CheckProcessStatus ==
    /\ timer_active
    /\ UNCHANGED exc
    /\ IF child_pid # None /\ procs[child_pid].state = "zombie"
       THEN LET exit_code == decode_status(procs[child_pid].status)
            IN /\ procs' = [procs EXCEPT ![child_pid].state = "reaped"]
               /\ timer_active' = FALSE
               /\ process_exit_code' = <<exit_code>>
               /\ child_pid' = None
               /\ events' = Append(events, [sig |-> "finished", pid |-> child_pid,
                                            code |-> exit_code])
       ELSE UNCHANGED <<procs, timer_active, process_exit_code, child_pid, events>>
    /\ UNCHANGED selVars
    /\ UNCHANGED <<bufs, parser, rows, cols, steps, master_fd, notifier, pty, open_fds,
                   runs, read_eof, dead_write, kill_after_term>>

\* The descriptor the notifier watches is readable (bytes wait, or the
\* other side is closed): _read_pty feeds what there is to the parser; the
\* loop ends with BlockingIOError, or with EOF / OSError once the child's
\* side is closed.
ReadPty ==
    /\ notifier # None
    /\ pty[notifier] # <<>> \/ ~procs[notifier].slave
    /\ IF master_fd # None
       THEN \E T \in {emit_plain(Term, pty[master_fd])} :
               /\ bufs' = T.bufs
               /\ parser' = T.p
               /\ pty' = [pty EXCEPT ![master_fd] = <<>>]
               /\ read_eof' = IF procs[master_fd].slave THEN read_eof
                              ELSE read_eof \cup {master_fd}
       ELSE UNCHANGED <<bufs, parser, pty, read_eof>>
    /\ exc' = NoExc
    /\ UNCHANGED selVars
    /\ UNCHANGED <<rows, cols, steps, child_pid, master_fd, notifier, timer_active,
                   process_exit_code, procs, open_fds, runs, events, dead_write, kill_after_term>>

\* write_pty(data) / write_bytes(data).
WritePty ==
    /\ IF master_fd # None
       THEN dead_write' = (dead_write \/ child_pid = None)
       ELSE UNCHANGED dead_write
    /\ UNCHANGED exc
    /\ UNCHANGED selVars
    /\ UNCHANGED <<bufs, parser, rows, cols, steps, child_pid, master_fd, notifier,
                   timer_active, process_exit_code, procs, pty, open_fds, runs, events,
                   read_eof, kill_after_term>>

send_sigint ==
    /\ IF child_pid # None
       THEN procs' = os_kill(procs, child_pid, SIGINT)
       ELSE UNCHANGED procs
    /\ UNCHANGED exc
    /\ UNCHANGED selVars
    /\ UNCHANGED <<bufs, parser, rows, cols, steps, child_pid, master_fd, notifier,
                   timer_active, process_exit_code, pty, open_fds, runs, events,
                   read_eof, dead_write, kill_after_term>>

\* terminate(): SIGTERM, half a second of sleep in the event-loop thread,
\* then SIGKILL if child_pid is still set.
terminate ==
    /\ IF child_pid # None
       THEN LET termed == os_kill(procs, child_pid, SIGTERM)
            IN /\ procs' = os_kill(termed, child_pid, SIGKILL)
               /\ kill_after_term' =
                     IF /\ termed[child_pid].state = "zombie"
                        /\ termed[child_pid].status = SignaledStatus(SIGTERM)
                     THEN kill_after_term \cup {child_pid}
                     ELSE kill_after_term
       ELSE UNCHANGED <<procs, kill_after_term>>
    /\ UNCHANGED exc
    /\ UNCHANGED selVars
    /\ UNCHANGED <<bufs, parser, rows, cols, steps, child_pid, master_fd, notifier,
                   timer_active, process_exit_code, pty, open_fds, runs, events,
                   read_eof, dead_write>>

HostNext ==
    \/ \E argv \in Argvs : Run(argv)
    \/ \E argv \in Argvs : RunForkFails(argv)
    \/ RunEmpty
    \/ \E p \in Pids : ChildWrite(p)
    \/ \E p \in Pids : ChildCloseSlave(p)
    \/ \E p \in Pids : ChildExit(p)
    \/ CheckProcessStatus
    \/ ReadPty
    \/ WritePty
    \/ send_sigint
    \/ terminate

HostSpec == Init /\ [][HostNext]_vars

\* The event loop delivers a timer that is running and a notifier whose
\* descriptor is readable; nothing makes a child exit.
HostFairSpec == HostSpec /\ WF_vars(CheckProcessStatus) /\ WF_vars(ReadPty)

\* ------------------------------------------------------------ observations
\* How often finished was emitted for process p.
FinishedCount(p) ==
    Cardinality({i \in 1..Len(events) : events[i].sig = "finished" /\ events[i].pid = p})

Started(p) == \E i \in 1..Len(events) : events[i].sig = "started" /\ events[i].pid = p

\* The Timeline the widget paints: list(screen.scrollback) + screen.primary.
Timeline == bufs[WidgetScreen].scrollback \o bufs[WidgetScreen].primary

\* The characters of a row, trailing blanks trimmed.
RowText(row) ==
    LET last == IF \E c \in 1..Len(row) : row[c].ch # " "
                THEN CHOOSE c \in 1..Len(row) :
                        row[c].ch # " " /\ \A d \in (c + 1)..Len(row) : row[d].ch = " "
                ELSE 0
    IN [c \in 1..last |-> row[c].ch]

\* The text of the last row of the Timeline that is not blank, <<>> if none.
LastNonBlankRow ==
    LET tl == Timeline
        nonblank == {r \in 1..Len(tl) : RowText(tl[r]) # <<>>}
    IN IF nonblank = {} THEN <<>>
       ELSE RowText(tl[CHOOSE r \in nonblank : \A q \in nonblank : q <= r])

\* The step emits finished(code) for process p.
EmitsFinished(p, code) ==
    /\ Len(events') = Len(events) + 1
    /\ events'[Len(events')] = [sig |-> "finished", pid |-> p, code |-> code]

\* -------------------------------------------------------------------- claims
\* C1: feed() never raises, from any reachable screen state: every erase
\* (CSI J / CSI K, modes 0, 1, 2) completes without an index error, also with
\* the cursor in the deferred-wrap column and after a restore-cursor that
\* follows a resize.
C1_FeedNeverRaises == exc # IndexError

\* C2: after any sequence of ScreenBuffer operations the cursor of every
\* buffer satisfies 0 <= cursor_row < rows and 0 <= cursor_col <= cols.
C2_CursorInBounds ==
    \A i \in BufIds :
        bufs[i] # NoBuffer =>
            /\ 0 <= bufs[i].cursor_row /\ bufs[i].cursor_row < bufs[i].rows
            /\ 0 <= bufs[i].cursor_col /\ bufs[i].cursor_col <= bufs[i].cols

\* C3: finished is emitted exactly once for the process each run() started:
\* never twice, and once the child has ended its finished follows, also when
\* run() was called again while it was live.
C3_FinishedExactlyOnce ==
    \A p \in Pids :
        /\ [](FinishedCount(p) <= 1)
        /\ (procs[p].state = "zombie") ~> (FinishedCount(p) = 1)

\* C4: at most one child is started and not yet reaped at any time.
C4_AtMostOneLiveChild ==
    Cardinality({p \in Pids : procs[p].state \in {"running", "zombie"}}) <= 1

\* C5: when finished(0) is emitted for echo hi, all the child wrote has been
\* fed: the last non-blank row of the Timeline is "hi".
C5_OutputFedBeforeFinished ==
    [][\A p \in Pids :
          EmitsFinished(p, 0) /\ procs[p].argv = <<"echo", "hi">>
              => LastNonBlankRow' = <<"h", "i">>]_vars

\* The codes finished can carry for a command that was started: its exit
\* status, or the negated number of the signal that killed it.
StartedCodes == (0..255) \cup {0 - s : s \in 1..64}

\* C6: run() never raises, and the finished of a command that could not be
\* started carries a code no started command can produce.
C6_SpawnFailureReported ==
    /\ exc # "OSError"
    /\ \A i \in 1..Len(events) :
          events[i].sig = "finished" /\ ExecFails(procs[events[i].pid].argv)
              => events[i].code \notin StartedCodes

\* C7: the code of finished is the child's exit status when it exited and
\* the negated signal number when a signal killed it; a child killed by the
\* SIGINT of send_sigint() gives -SIGINT.
C7_FinishedCodeMatchesStatus ==
    \A i \in 1..Len(events) :
        events[i].sig = "finished" =>
            LET st == procs[events[i].pid].status
                code == events[i].code
            IN \/ \E c \in 0..255 : st = ExitedStatus(c) /\ code = c
               \/ \E s \in {SIGHUP, SIGINT, SIGKILL, SIGTERM} :
                     st = SignaledStatus(s) /\ code = 0 - s

\* A child that send_sigint() killed has been reported, with -SIGINT.
C7_Witness ==
    \E i \in 1..Len(events) :
        /\ events[i].sig = "finished"
        /\ procs[events[i].pid].status = SignaledStatus(SIGINT)
        /\ events[i].code = 0 - SIGINT

\* C8: once finished was emitted for a process, its master descriptor is
\* closed, no notifier watches it, and its pid is reaped.
C8_HandleDestroyedAtFinish ==
    \A p \in Pids :
        FinishedCount(p) > 0 =>
            /\ p \notin open_fds
            /\ notifier # p
            /\ procs[p].state = "reaped"

\* C9: write_pty called while no process is live writes to no descriptor.
C9_NoWriteWhenNotLive == ~dead_write

\* C10: EOF or a read error on the master descriptor leads to the
\* termination event and to the host no longer holding the process as live.
C10_ReadEofEndsProcess ==
    \A p \in Pids : (p \in read_eof) ~> (FinishedCount(p) = 1 /\ child_pid # p)

\* C11: terminate() sends SIGKILL only to a child that outlived the grace
\* period: a child that died of the SIGTERM is never sent SIGKILL.
C11_NoKillAfterTermDeath == kill_after_term = {}

\* The cursor of buffer s is on the grid or in the deferred-wrap column.
CursorOnGrid(s) ==
    /\ 0 <= s.cursor_row /\ s.cursor_row < s.rows
    /\ 0 <= s.cursor_col /\ s.cursor_col <= s.cols

\* C12: a printable character written with the cursor left of cols is stored
\* under the cursor and moves it one column right, with no scroll and no
\* change of row, also when that reaches cols; written with the cursor at
\* cols it first makes a line feed (scrolling on the last row) and is stored
\* at column 0 of the following row.
C12_DeferredWrap ==
    [][\A ch \in PlainChars :
          LET s == bufs[parser.screen]
              s2 == bufs'[parser.screen]
              cell == styled_cell(parser, ch)
          IN FeedText(ch) /\ CursorOnGrid(s) =>
                IF s.cursor_col < s.cols
                THEN s2 = [s EXCEPT !.primary[s.cursor_row + 1][s.cursor_col + 1] = cell,
                                    !.cursor_col = s.cursor_col + 1]
                ELSE IF s.cursor_row + 1 < s.rows
                THEN s2 = [s EXCEPT !.primary[s.cursor_row + 2][1] = cell,
                                    !.cursor_row = s.cursor_row + 1,
                                    !.cursor_col = 1]
                ELSE /\ s2.cursor_row = s.rows - 1
                     /\ s2.cursor_col = 1
                     /\ s2.primary = Append(Tail(s.primary),
                                            [BlankRow(s.cols) EXCEPT ![1] = cell])]_vars

\* Three characters on a grid of two columns: the third wrapped to the
\* second row.
C12_Witness ==
    LET s == bufs[WidgetScreen]
    IN /\ steps = 3
       /\ s.rows = 2 /\ s.cols = 2
       /\ RowText(s.primary[1]) = <<"h", "i">>
       /\ RowText(s.primary[2]) = <<"h">>
       /\ s.cursor_row = 1 /\ s.cursor_col = 1

\* The last k elements of a sequence, all of it when it is shorter.
LastRows(seq, k) == SubSeq(seq, Max(1, Len(seq) - k + 1), Len(seq))

\* C13: scroll_up(n) on a buffer of capacity N > 0 leaves scrollback ++
\* primary equal to the Timeline before followed by n blank rows, less the
\* oldest rows that no longer fit: the grid keeps its rows and the scrollback
\* at most N.
C13_ScrollUpTimeline ==
    [][\A n \in 1..2 :
          LET s == bufs[parser.screen]
              s2 == bufs'[parser.screen]
              grown == s.scrollback \o s.primary \o [i \in 1..n |-> BlankRow(s.cols)]
          IN FeedCSI(<<Digits[n + 1]>>, "S") /\ s.scrollback_limit > 0 =>
                /\ s2.scrollback \o s2.primary = LastRows(grown, s.scrollback_limit + s.rows)
                /\ Len(s2.primary) = s.rows
                /\ Len(s2.scrollback) <= s.scrollback_limit]_vars

\* "h" and then ESC[1S: the row of the "h" is in the scrollback, the cursor
\* still on the first row.
C13_Witness ==
    LET s == bufs[WidgetScreen]
    IN /\ steps = 2
       /\ s.rows = MaxRows
       /\ Len(s.scrollback) = 1
       /\ RowText(s.scrollback[1]) = <<"h">>
       /\ s.cursor_row = 0 /\ s.cursor_col = 1

\* C14: the scrollback of a buffer never holds more rows than its capacity,
\* and that of a buffer of capacity 0 is always empty.
C14_ScrollbackWithinCapacity ==
    \A i \in BufIds :
        /\ Len(bufs[i].scrollback) <= bufs[i].scrollback_limit
        /\ bufs[i].scrollback_limit = 0 => bufs[i].scrollback = <<>>

\* The widget's scrollback is filled to its capacity, and the buffer the
\* parser writes to is an alternate one, of capacity 0.
C14_Witness ==
    /\ Len(bufs[WidgetScreen].scrollback) = Scrollback
    /\ parser.screen # WidgetScreen
    /\ bufs[parser.screen].scrollback_limit = 0
    /\ bufs[parser.screen].rows > 0

\* C15: resize is idempotent: after a resizeEvent that resized the widget's
\* buffer, from any reachable state, a second resize with the same arguments
\* changes nothing of what the first left (grid, scrollback, cursor, saved
\* cursor, size).
C15_ResizeIdempotent ==
    [][(rows' # rows \/ cols' # cols) /\ (\E r \in 0..MaxRows, c \in 0..MaxCols : ResizeEvent(r, c))
          => LET once == bufs'[WidgetScreen]
             IN resize(once, rows', cols') = once]_vars

\* The widget's buffer was written to and resized to one row: the row of the
\* "h" went to the scrollback.
C15_Witness ==
    LET s == bufs[WidgetScreen]
    IN /\ s.rows = 1
       /\ Len(s.scrollback) = 1
       /\ RowText(s.scrollback[1]) = <<"h">>
       /\ s.saved_cursor # <<0, 0>>

\* C16: resizing the widget's buffer to fewer columns and back to its
\* columns, the rows unchanged, leaves every cell of the grid as it was.
C16_ColsRoundTrip ==
    LET s == bufs[WidgetScreen]
    IN \A c \in 1..s.cols :
          resize(resize(s, s.rows, c), s.rows, s.cols).primary = s.primary

MoveCmds == {"A", "B", "C", "D", "H"}

\* C18: ESC[s stores the cursor of the active buffer in its single slot,
\* overwriting what was there; cursor motions leave the slot as it is; ESC[u
\* sets the cursor to exactly the position in the slot.
C18_SaveRestoreRoundTrip ==
    [][LET s == bufs[parser.screen]
           s2 == bufs'[parser.screen]
       IN /\ \/ s2 = [s EXCEPT !.saved_cursor = <<s.cursor_row, s.cursor_col>>]
             \/ ~FeedCSI(<<>>, "s")
          /\ \/ s2 = [s EXCEPT !.cursor_row = s.saved_cursor[1],
                                !.cursor_col = s.saved_cursor[2]]
             \/ ~FeedCSI(<<>>, "u")
          /\ \/ s2.saved_cursor = s.saved_cursor
             \/ \A pr \in CsiParams, cmd \in MoveCmds : ~FeedCSI(pr, cmd)]_vars

\* After four events the cursor of the active buffer stands at (1, 1), the
\* position its slot holds: as after ESC[2;2H, ESC[s, ESC[1A, ESC[u.
C18_Witness ==
    LET s == bufs[parser.screen]
    IN /\ steps = 4
       /\ s.saved_cursor = <<1, 1>>
       /\ s.cursor_row = 1 /\ s.cursor_col = 1
       /\ s.scrollback = <<>>
       /\ \A r \in 1..Len(s.primary) : s.primary[r] = BlankRow(s.cols)

\* The cursor motions and the scroll fed that take a count, and what each
\* does to (cursor_row, cursor_col) with a count of n, before clamping.
CountCmds == {"A", "B", "C", "D", "S"}

Moved(s, cmd, n) ==
    IF cmd = "A" THEN <<s.cursor_row - n, s.cursor_col>>
    ELSE IF cmd = "B" THEN <<s.cursor_row + n, s.cursor_col>>
    ELSE IF cmd = "C" THEN <<s.cursor_row, s.cursor_col + n>>
    ELSE IF cmd = "D" THEN <<s.cursor_row, s.cursor_col - n>>
    ELSE <<s.cursor_row, s.cursor_col>>

\* C19: a cursor motion or scroll fed without a parameter acts with a count
\* of 1: ESC[A, ESC[B, ESC[C, ESC[D move the cursor by one position, clamped
\* to the grid, and ESC[S scrolls the grid up by one row.
C19_DefaultCountIsOne ==
    [][\A cmd \in CountCmds :
          LET s == bufs[parser.screen]
              s2 == bufs'[parser.screen]
              to == Moved(s, cmd, 1)
          IN FeedCSI(<<>>, cmd) =>
                IF cmd = "S"
                THEN s2.primary = Append(Tail(s.primary), BlankRow(s.cols))
                ELSE /\ s2.cursor_row = clamp(to[1], 0, s.rows - 1)
                     /\ s2.cursor_col = clamp(to[2], 0, s.cols - 1)]_vars

\* C20: a private mode set of 47 or 1049 fed while the parser's active
\* buffer is an alternate one (not the widget's primary buffer) leaves an
\* alternate buffer active.
C20_ReenterAltStaysAlt ==
    [][\A pp \in PrivateParams :
          FeedCSI(pp, "h") /\ parser.screen # WidgetScreen
              => parser'.screen # WidgetScreen]_vars

\* C21: after a private mode reset of 47 or 1049 the parser's active buffer
\* is the widget's primary buffer, whatever sets and resets came before.
C21_ResetLeavesPrimary ==
    [][\A pp \in PrivateParams :
          FeedCSI(pp, "l") => parser'.screen = WidgetScreen]_vars

\* C22: a private mode set of 47 or 1049 fed while the primary buffer is
\* active makes active a blank buffer of capacity 0 and of the primary's
\* rows x cols, its cursor at the primary's cursor position; so at the
\* first entry and at every later one.
C22_EntryGivesBlankAlt ==
    [][\A pp \in PrivateParams :
          LET s == bufs[WidgetScreen]
          IN FeedCSI(pp, "h") /\ parser.screen = WidgetScreen =>
                /\ parser'.screen # WidgetScreen
                /\ bufs'[parser'.screen] =
                      [ScreenBuffer(s.rows, s.cols, 0) EXCEPT
                          !.cursor_row = s.cursor_row,
                          !.cursor_col = s.cursor_col]]_vars

\* The step is a feed() of one character or of one CSI sequence.
IsFeed ==
    \/ \E ch \in PlainChars \cup ControlChars : FeedText(ch)
    \/ \E csi \in CsiInputs : FeedCSI(csi[1], csi[2])

\* C23: while an alternate buffer is active, nothing that is fed changes the
\* grid or the scrollback of the widget's primary buffer, and the scrollback
\* of the alternate buffer stays empty.  (A step that changes rows or cols
\* is a resizeEvent and no feed.)
C23_AltOutputSparesPrimary ==
    [][\/ parser.screen = WidgetScreen
       \/ /\ bufs'[WidgetScreen].primary = bufs[WidgetScreen].primary
          /\ bufs'[WidgetScreen].scrollback = bufs[WidgetScreen].scrollback
          /\ bufs'[parser.screen].scrollback = <<>>
       \/ rows' # rows
       \/ cols' # cols
       \/ ~IsFeed]_vars

\* "h" on the primary buffer, then the alternate screen entered, a
\* character written there and scrolled off or erased: the "h" and the
\* primary's cursor are where they were.
C23_Witness ==
    /\ steps = 4
    /\ parser.screen # WidgetScreen
    /\ RowText(bufs[WidgetScreen].primary[1]) = <<"h">>
    /\ bufs[WidgetScreen].cursor_row = 0 /\ bufs[WidgetScreen].cursor_col = 1
    /\ bufs[WidgetScreen].scrollback = <<>>
    /\ LET a == bufs[parser.screen]
       IN /\ a.cursor_row = 0 /\ a.cursor_col = 2
          /\ a.scrollback = <<>>
          /\ \A r \in 1..Len(a.primary) : a.primary[r] = BlankRow(a.cols)

\* C24: feeding an escape sequence the parser does not recognise leaves
\* every buffer as it was: no cell takes the ESC or a byte of the sequence,
\* and the cursor does not move.
C24_UnrecognisedDiscarded ==
    [][\A seq \in Unrecognised : Feed(seq) => bufs' = bufs]_vars

\* C25: a tab written with the cursor on a column of the grid moves the
\* cursor along its row to the next column that is a multiple of 8 (to the
\* right edge when the grid is narrower), with no line feed and no scroll.
C25_TabToNextStop ==
    [][LET s == bufs[parser.screen]
           s2 == bufs'[parser.screen]
       IN FeedText(TAB) /\ CursorOnGrid(s) /\ s.cursor_col < s.cols =>
             /\ s2.cursor_row = s.cursor_row
             /\ s2.cursor_col = Min(8 * ((s.cursor_col \div 8) + 1), s.cols)
             /\ s2.scrollback = s.scrollback]_vars

\* C26: copy_selection puts on the clipboard the text of the rows the view
\* shows under the selection, wherever the scroll bar stands (rows of the
\* scrollback when the view is scrolled up), the endpoints in reading order
\* and each line without its trailing blanks, and it does not raise, after
\* a resize of the grid either.
C26_NoRaise ==
    [][CopySelection => exc' = NoExc]_vars

C26_DisplayedText ==
    [][CopySelection /\ sel_start # NoSel /\ sel_end # NoSel /\ exc' = NoExc
         => \A value \in 0..max_scroll :
               clipboard' = selected_text(visible(value), norm_sel(sel_start, sel_end))]_vars

C26_CopyReturnsDisplayedText ==
    [][CopySelection /\ sel_start # NoSel /\ sel_end # NoSel
         => /\ exc' = NoExc
            /\ \A value \in 0..max_scroll :
                  clipboard' = selected_text(visible(value),
                                             norm_sel(sel_start, sel_end))]_vars

\* C27: after SGR reset (ESC [ 0 m, or ESC [ m without a parameter),
\* whatever was applied before it, the cell written next has no foreground,
\* no background, and bold, italic, underline and inverse false: but for
\* its character, the cell of a freshly constructed buffer.
C27_ResetGivesDefaultStyle ==
    [][\A params_raw \in {<<>>, <<"0">>} :
         FeedCSI(params_raw, "m")
           => \A ch \in PlainChars :
                LET T == emit_plain([bufs |-> bufs', p |-> parser', exc |-> NoExc], <<ch>>)
                    s == T.bufs[T.p.screen]
                IN s.primary[s.cursor_row + 1][s.cursor_col] = [DefaultCell EXCEPT !.ch = ch]]_vars

\* Bold red on blue "h", a reset, then "i".
C27_Witness ==
    /\ steps = 4
    /\ bufs[WidgetScreen].primary[1][1].ch = "h"
    /\ bufs[WidgetScreen].primary[1][1] # [DefaultCell EXCEPT !.ch = "h"]
    /\ bufs[WidgetScreen].primary[1][2] = [DefaultCell EXCEPT !.ch = "i"]
    /\ styled_cell(parser, " ") = DefaultCell

\* C28: a stream fed in two chunks, split at whatever position (inside a
\* CSI sequence too), leaves the same screen state (grids, cursors, style,
\* active buffer) as the whole stream fed in one call of feed().
C28_ChunkedFeedSameAsWhole ==
    \A S \in Streams : \A k \in 1..(Len(S) - 1) :
       LET whole == feed(Term, S)
           first == feed(Term, SubSeq(S, 1, k))
           both == feed([first EXCEPT !.exc = NoExc], SubSeq(S, k + 1, Len(S)))
       IN /\ both.bufs = whole.bufs
          /\ both.p = whole.p

\* C29: after a resizeEvent (here: one that changes the size of the grid)
\* the buffer the parser writes into is the widget's buffer, the one
\* paintEvent draws, and it has the widget's new rows and cols, whether or
\* not the alternate screen was active before.
C29_ParserWritesToResizedPrimary ==
    [][(rows' # rows \/ cols' # cols) /\ (\E r \in 0..MaxRows, c \in 0..MaxCols : ResizeEvent(r, c))
         => /\ parser'.screen = WidgetScreen
            /\ bufs'[parser'.screen].rows = rows'
            /\ bufs'[parser'.screen].cols = cols']_vars

\* C30: after any sequence of operations (writes, line feeds, scroll_up,
\* erases, resizes to at least 1 x 1, reset) the grid of every ScreenBuffer
\* has exactly `rows` rows and every row has exactly `cols` cells.
C30_GridShape ==
    \A i \in BufIds :
       bufs[i] # NoBuffer
         => /\ Len(bufs[i].primary) = bufs[i].rows
            /\ \A r \in 1..Len(bufs[i].primary) : Len(bufs[i].primary[r]) = bufs[i].cols

\* "h", a line feed and "i" on the 2 x 2 grid, then a resize to one row of
\* two cells: the row of "h" is in the scrollback, the row of "i" is the grid.
C30_Witness ==
    /\ steps = 4
    /\ rows = 1
    /\ cols = MaxCols
    /\ Len(bufs[WidgetScreen].scrollback) = 1
    /\ bufs[WidgetScreen].scrollback[1][1].ch = "h"
    /\ Len(bufs[WidgetScreen].primary) = 1
    /\ bufs[WidgetScreen].primary[1][1].ch = "i"

====
